---- MODULE Spec2Model ----
(***************************************************************************)
(* Clixon: the XMLDB datastore layer (lock table, tree cache, backing      *)
(* files) and the RESTCONF FCGI notification stream.                       *)
(***************************************************************************)
EXTENDS Integers, Sequences, FiniteSets, TLC

(* ------------------------------------------------------------------ *)
(* Bounds                                                              *)
(* ------------------------------------------------------------------ *)

\* Number of datastores (taken in order from DbSeq) the operations are run on.
NumStores == 2

\* Session / process ids that take locks: 1..MaxPid.
MaxPid == 2

\* Tree objects the allocator can hand out: addresses 1..MaxObj.
MaxObj == 2

\* Distinct non-empty configuration contents: 1..MaxContent (0 is the empty one).
MaxContent == 1

(* ------------------------------------------------------------------ *)
(* Datastore names and file names                                      *)
(* ------------------------------------------------------------------ *)

DbSeq == <<"running", "candidate", "startup", "tmp">>

Stores == {DbSeq[i] : i \in 1..NumStores}

Pids == 1..MaxPid

Objs == 1..MaxObj

Contents == 0..MaxContent

\* A NULL tree pointer (de_xml = NULL).
NULL == 0

\* lstat() < 0: the backing file does not exist.
NoFile == -1

\* A heap address that holds no live tree (never allocated, or xml_free'd).
Free == -1

VARIABLES
    cache,      \* option CLICON_XMLDB_CACHE
    db_elmnt,   \* the handle's db_elmnt hash: db -> [present, de_pid, de_xml]
    heap,       \* tree objects: address -> Free or the content of the live tree
    files,      \* backing files <dir>/<db>_db: db -> NoFile or content
    tmpfile,    \* the temporary file of a file copy in progress
    pc,         \* "idle", or "rename" while a file copy awaits its rename
    last,       \* the operation that ran last: [op, a, b, pid, ret]
    old,        \* db_elmnt, heap and files when that operation started
    vres,       \* the last xmldb_validate_db call: [db, ret]
    fres,       \* the last xmldb_db2file call: [dirset, dir, db, ret, filename]
    fprev,      \* the xmldb_db2file call before that
    STREAM_CHILD, \* restconf daemon: the list of stream children (sc_pid)
    forked,     \* restconf daemon: number of children fork() has created
    req,        \* restconf daemon: the last api_stream call, inputs and effects
    sess,       \* the stream child that is followed: its process state
    nacm,       \* access control: [cfg, x, okval, last]
    yfind,      \* the last yang_find_module_by_* call: [fn, yspec, after, ym, arg, ret]
    upg         \* the last clixon_module_upgrade call: [msd, res]

dbvars == <<cache, db_elmnt, heap, files, tmpfile, pc, last, old>>

namevars == <<vres, fres, fprev>>

streamvars == <<STREAM_CHILD, forked, req, sess>>

nacmvars == <<nacm>>

yangvars == <<yfind, upg>>

vars == <<cache, db_elmnt, heap, files, tmpfile, pc, last, old,
          vres, fres, fprev, STREAM_CHILD, forked, req, sess, nacm, yfind, upg>>

\* db_elmnt de0 = {0,}
de_zero == [present |-> FALSE, de_pid |-> 0, de_xml |-> NULL]

Snapshot == [de |-> db_elmnt, heap |-> heap, files |-> files]

Op(op, a, b, pid, ret) == [op |-> op, a |-> a, b |-> b, pid |-> pid, ret |-> ret]

(* ------------------------------------------------------------------ *)
(* The db_elmnt hash of the handle                                     *)
(* ------------------------------------------------------------------ *)

\* clicon_db_elmnt_get: the entry of db, or NULL (present = FALSE).
clicon_db_elmnt_get(de, db) == de[db]

\* clicon_db_elmnt_set: store a copy of the struct under key db.
clicon_db_elmnt_set(de, db, e) ==
    [de EXCEPT ![db] = [present |-> TRUE, de_pid |-> e.de_pid, de_xml |-> e.de_xml]]

\* xml_free: the address no longer holds a live tree.
xml_free(h, p) == IF p = NULL THEN h ELSE [h EXCEPT ![p] = Free]

\* Addresses xml_new can return.
FreeObjs(h) == {p \in Objs : h[p] = Free}

\* What a read of the tree at address p yields: its content, or anything at all
\* when p does not hold a live tree (use after free).
ReadTree(h, p) == IF h[p] = Free THEN Contents ELSE {h[p]}

(* ------------------------------------------------------------------ *)
(* Lock table                                                          *)
(* ------------------------------------------------------------------ *)

xmldb_islocked(de, db) ==
    IF ~clicon_db_elmnt_get(de, db).present THEN 0
    ELSE clicon_db_elmnt_get(de, db).de_pid

xmldb_lock(db, pid) ==
    /\ pc = "idle"
    /\ LET de  == clicon_db_elmnt_get(db_elmnt, db)
           de0 == IF de.present THEN de ELSE de_zero
       IN  db_elmnt' = clicon_db_elmnt_set(db_elmnt, db, [de0 EXCEPT !.de_pid = pid])
    /\ last' = Op("lock", db, db, pid, 0)
    /\ old' = Snapshot
    /\ UNCHANGED <<cache, heap, files, tmpfile, pc, namevars, nacmvars, yangvars, streamvars>>

\* xmldb_unlock written like xmldb_lock: the entry is stored even when there
\* was none.
xmldb_unlock_creates(db) ==
    /\ pc = "idle"
    /\ LET de  == clicon_db_elmnt_get(db_elmnt, db)
           de0 == IF de.present THEN de ELSE de_zero
       IN  db_elmnt' = clicon_db_elmnt_set(db_elmnt, db, [de0 EXCEPT !.de_pid = 0])
    /\ last' = Op("unlock", db, db, 0, 0)
    /\ old' = Snapshot
    /\ UNCHANGED <<cache, heap, files, tmpfile, pc, namevars, nacmvars, yangvars, streamvars>>

\* xmldb_unlock that releases the lock of every datastore.
xmldb_unlock_every(db) ==
    /\ pc = "idle"
    /\ db_elmnt' = [d \in Stores |->
                      IF db_elmnt[d].present THEN [db_elmnt[d] EXCEPT !.de_pid = 0]
                      ELSE db_elmnt[d]]
    /\ last' = Op("unlock", db, db, 0, 0)
    /\ old' = Snapshot
    /\ UNCHANGED <<cache, heap, files, tmpfile, pc, namevars, nacmvars, yangvars, streamvars>>

xmldb_unlock(db) ==
    /\ pc = "idle"
    /\ LET de == clicon_db_elmnt_get(db_elmnt, db)
       IN  db_elmnt' = IF de.present
                       THEN clicon_db_elmnt_set(db_elmnt, db, [de EXCEPT !.de_pid = 0])
                       ELSE db_elmnt
    /\ last' = Op("unlock", db, db, 0, 0)
    /\ old' = Snapshot
    /\ UNCHANGED <<cache, heap, files, tmpfile, pc, namevars, nacmvars, yangvars, streamvars>>

\* xmldb_unlock_all without the de_pid == pid test: every lock is released.
xmldb_unlock_all_anypid(pid, keysfail) ==
    /\ pc = "idle"
    /\ db_elmnt' = IF keysfail THEN db_elmnt
                   ELSE [db \in Stores |->
                           LET de == clicon_db_elmnt_get(db_elmnt, db)
                           IN  IF de.present
                               THEN clicon_db_elmnt_set(db_elmnt, db,
                                        [de EXCEPT !.de_pid = 0])[db]
                               ELSE db_elmnt[db]]
    /\ last' = Op("unlock_all", "", "", pid, IF keysfail THEN -1 ELSE 0)
    /\ old' = Snapshot
    /\ UNCHANGED <<cache, heap, files, tmpfile, pc, namevars, nacmvars, yangvars, streamvars>>

xmldb_unlock_all(pid, keysfail) ==
    /\ pc = "idle"
    /\ db_elmnt' = IF keysfail THEN db_elmnt
                   ELSE [db \in Stores |->
                           LET de == clicon_db_elmnt_get(db_elmnt, db)
                           IN  IF de.present /\ de.de_pid = pid
                               THEN clicon_db_elmnt_set(db_elmnt, db,
                                        [de EXCEPT !.de_pid = 0])[db]
                               ELSE db_elmnt[db]]
    /\ last' = Op("unlock_all", "", "", pid, IF keysfail THEN -1 ELSE 0)
    /\ old' = Snapshot
    /\ UNCHANGED <<cache, heap, files, tmpfile, pc, namevars, nacmvars, yangvars, streamvars>>

(* ------------------------------------------------------------------ *)
(* Copy                                                                *)
(* ------------------------------------------------------------------ *)

\* Places where xmldb_copy can fail.
CopyFail == {"ok", "xml_new", "xml_copy", "db2file", "file_copy"}

\* The cached tree of db as xmldb_copy reads it (x1, x2).
CachedXml(de, db) ==
    IF clicon_db_elmnt_get(de, db).present
    THEN clicon_db_elmnt_get(de, db).de_xml ELSE NULL

\* The in-memory part of xmldb_copy: the outcomes [de, heap, ok] it can have,
\* ok = FALSE when it left through "goto done". A tree that xml_new returned
\* and a failed xml_copy left behind is referenced by nothing afterwards (it
\* is leaked), so it is not kept in the heap.
CopyCache(from, to, f) ==
    LET x1  == CachedXml(db_elmnt, from)
        x2  == CachedXml(db_elmnt, to)
        de2 == clicon_db_elmnt_get(db_elmnt, to)
        de0 == IF de2.present THEN de2 ELSE de_zero
        h1  == xml_free(heap, x2)
        Set(h, x) == [de   |-> clicon_db_elmnt_set(db_elmnt, to, [de0 EXCEPT !.de_xml = x]),
                      heap |-> h, ok |-> TRUE]
        Fail(h)   == [de |-> db_elmnt, heap |-> h, ok |-> FALSE]
    IN  IF x1 = NULL
        THEN {Set(h1, NULL)}
        ELSE IF f \in {"xml_new", "xml_copy"} \/ FreeObjs(h1) = {}
             THEN {Fail(h1)}
             ELSE {Set([h1 EXCEPT ![p] = c], p)
                     : p \in FreeObjs(h1), c \in ReadTree(h1, x1)}

\* clicon_file_copy, first half: the source is read into the temporary file.
clicon_file_copy_write(from) == files[from]

xmldb_copy(from, to, f) ==
    /\ pc = "idle"
    /\ f \in {"xml_new", "xml_copy"} => cache /\ CachedXml(db_elmnt, from) # NULL
    /\ \E r \in (IF cache THEN CopyCache(from, to, f)
                 ELSE {[de |-> db_elmnt, heap |-> heap, ok |-> TRUE]}) :
          /\ db_elmnt' = r.de
          /\ heap' = r.heap
          /\ IF r.ok /\ f \notin {"db2file", "file_copy"} /\ files[from] # NoFile
             THEN /\ tmpfile' = clicon_file_copy_write(from)
                  /\ pc' = "rename"
             ELSE UNCHANGED <<tmpfile, pc>>
    /\ last' = Op("copy", from, to, 0, -1)
    /\ old' = Snapshot
    /\ UNCHANGED <<cache, files, namevars, nacmvars, yangvars, streamvars>>

\* clicon_file_copy, second half: the temporary file is renamed over the target,
\* and xmldb_copy returns 0.
clicon_file_copy_rename ==
    /\ pc = "rename"
    /\ files' = [files EXCEPT ![last.b] = tmpfile]
    /\ tmpfile' = NoFile
    /\ pc' = "idle"
    /\ last' = [last EXCEPT !.ret = 0]
    /\ UNCHANGED <<cache, db_elmnt, heap, old, namevars, nacmvars, yangvars, streamvars>>

(* ------------------------------------------------------------------ *)
(* Exists, delete, create, disconnect, cached read                     *)
(* ------------------------------------------------------------------ *)

xmldb_exists(fs, db) == IF fs[db] = NoFile THEN 0 ELSE 1

\* The cached tree is freed and the whole entry is cleared.
DropCache_entry(db) ==
    LET de == clicon_db_elmnt_get(db_elmnt, db)
    IN  IF cache /\ de.present /\ de.de_xml # NULL
        THEN /\ heap' = xml_free(heap, de.de_xml)
             /\ db_elmnt' = [db_elmnt EXCEPT ![db] = [de_zero EXCEPT !.present = TRUE]]
        ELSE UNCHANGED <<heap, db_elmnt>>

\* xmldb_delete and xmldb_create: free the cached tree and clear de_xml in place.
DropCache(db) ==
    LET de == clicon_db_elmnt_get(db_elmnt, db)
    IN  IF cache /\ de.present /\ de.de_xml # NULL
        THEN /\ heap' = xml_free(heap, de.de_xml)
             /\ db_elmnt' = [db_elmnt EXCEPT ![db].de_xml = NULL]
        ELSE UNCHANGED <<heap, db_elmnt>>

DeleteFail == {"ok", "db2file", "unlink"}

xmldb_delete(db, f) ==
    /\ pc = "idle"
    /\ f = "unlink" => xmldb_exists(files, db) = 1
    /\ DropCache(db)
    /\ files' = IF f = "ok" /\ xmldb_exists(files, db) = 1
                THEN [files EXCEPT ![db] = NoFile] ELSE files
    /\ last' = Op("delete", db, db, 0,
                  IF f = "db2file" \/ (f = "unlink" /\ xmldb_exists(files, db) = 1)
                  THEN -1 ELSE 0)
    /\ old' = Snapshot
    /\ UNCHANGED <<cache, tmpfile, pc, namevars, nacmvars, yangvars, streamvars>>

CreateFail == {"ok", "db2file", "open"}

\* open() without O_CREAT: an absent file stays absent.
OpenNoCreat(fs, db) == fs

\* open() with O_TRUNC added: an existing file is emptied.
OpenCreatTrunc(fs, db) == [fs EXCEPT ![db] = 0]

\* open(filename, O_CREAT|O_WRONLY, S_IRWXU): an absent file is created empty,
\* an existing one is left as it is.
OpenCreat(fs, db) == IF fs[db] = NoFile THEN [fs EXCEPT ![db] = 0] ELSE fs

xmldb_create(db, f) ==
    /\ pc = "idle"
    /\ DropCache(db)
    /\ files' = IF f = "ok" THEN OpenCreat(files, db) ELSE files
    /\ last' = Op("create", db, db, 0, IF f = "ok" THEN 0 ELSE -1)
    /\ old' = Snapshot
    /\ UNCHANGED <<cache, tmpfile, pc, namevars, nacmvars, yangvars, streamvars>>

\* xmldb_disconnect that frees the trees and leaves de_xml as it is.
xmldb_disconnect_dangling(keysfail) ==
    /\ pc = "idle"
    /\ IF keysfail THEN UNCHANGED <<heap, db_elmnt>>
       ELSE /\ heap' = [p \in Objs |->
                          IF \E db \in Stores : /\ db_elmnt[db].present
                                                /\ db_elmnt[db].de_xml = p
                          THEN Free ELSE heap[p]]
            /\ UNCHANGED db_elmnt
    /\ last' = Op("disconnect", "", "", 0, IF keysfail THEN -1 ELSE 0)
    /\ old' = Snapshot
    /\ UNCHANGED <<cache, files, tmpfile, pc, namevars, nacmvars, yangvars, streamvars>>

xmldb_disconnect(keysfail) ==
    /\ pc = "idle"
    /\ IF keysfail THEN UNCHANGED <<heap, db_elmnt>>
       ELSE /\ heap' = [p \in Objs |->
                          IF \E db \in Stores : /\ db_elmnt[db].present
                                                /\ db_elmnt[db].de_xml = p
                          THEN Free ELSE heap[p]]
            /\ db_elmnt' = [db \in Stores |->
                              IF db_elmnt[db].present
                              THEN [db_elmnt[db] EXCEPT !.de_xml = NULL]
                              ELSE db_elmnt[db]]
    /\ last' = Op("disconnect", "", "", 0, IF keysfail THEN -1 ELSE 0)
    /\ old' = Snapshot
    /\ UNCHANGED <<cache, files, tmpfile, pc, namevars, nacmvars, yangvars, streamvars>>

\* A read with the cache enabled and no tree cached: the backing file is parsed
\* into a new tree, which the entry then holds.
xmldb_get(db) ==
    /\ pc = "idle"
    /\ cache
    /\ CachedXml(db_elmnt, db) = NULL
    /\ files[db] # NoFile
    /\ \E p \in FreeObjs(heap) :
          /\ heap' = [heap EXCEPT ![p] = files[db]]
          /\ LET de  == clicon_db_elmnt_get(db_elmnt, db)
                 de0 == IF de.present THEN de ELSE de_zero
             IN  db_elmnt' = clicon_db_elmnt_set(db_elmnt, db, [de0 EXCEPT !.de_xml = p])
    /\ last' = Op("get", db, db, 0, 0)
    /\ old' = Snapshot
    /\ UNCHANGED <<cache, files, tmpfile, pc, namevars, nacmvars, yangvars, streamvars>>

(* ------------------------------------------------------------------ *)
(* Properties of the datastore                                         *)
(* ------------------------------------------------------------------ *)

Holder(db) == xmldb_islocked(db_elmnt, db)

OldHolder(db) == xmldb_islocked(old.de, db)

Returned(op) == pc = "idle" /\ last.op = op

\* The cached tree of db is a live tree with content c.
HoldsTree(de, h, db, c) ==
    /\ CachedXml(de, db) # NULL
    /\ h[CachedXml(de, db)] = c
    /\ c # Free

\* C1: xmldb_lock(db, B) on a datastore held by another holder A fails
\* (lock-denied) and leaves A as the holder.
C1_LockDenied ==
    (Returned("lock") /\ OldHolder(last.a) # 0 /\ OldHolder(last.a) # last.pid)
        => (last.ret # 0 /\ Holder(last.a) = OldHolder(last.a))

\* C2: a holder p stays the holder of db until an unlock of db or an
\* unlock_all of p; a datastore with no entry, and one that has just been
\* unlocked, has holder 0.
C2_HolderUntilUnlock ==
    /\ \A db \in Stores :
          (/\ pc = "idle"
           /\ OldHolder(db) # 0
           /\ ~(last.op = "unlock" /\ last.a = db)
           /\ ~(last.op = "unlock_all" /\ last.pid = OldHolder(db)))
              => Holder(db) = OldHolder(db)
    /\ \A db \in Stores : ~db_elmnt[db].present => Holder(db) = 0
    /\ Returned("unlock") => Holder(last.a) = 0

\* C3: xmldb_unlock(db) on a datastore whose holder is 0 (entry or not)
\* returns OK and changes nothing: no entry appears, no holder, cached tree
\* or file of any datastore changes.
C3_UnlockUnlockedNoop ==
    (Returned("unlock") /\ OldHolder(last.a) = 0)
        => (/\ last.ret = 0
            /\ db_elmnt = old.de
            /\ heap = old.heap
            /\ files = old.files)

C3_Witness ==
    /\ Returned("unlock")
    /\ OldHolder(last.a) = 0
    /\ \E c \in Contents : HoldsTree(old.de, old.heap, last.a, c)
    /\ \E db \in Stores : ~old.de[db].present

\* C4: after xmldb_unlock_all(p) every datastore that p held has holder 0,
\* every other datastore keeps its holder, and no entry's tree pointer nor
\* any tree changes.
C4_UnlockAll ==
    (Returned("unlock_all") /\ last.ret = 0)
        => (/\ \A db \in Stores :
                  /\ Holder(db) = IF OldHolder(db) = last.pid THEN 0 ELSE OldHolder(db)
                  /\ db_elmnt[db].present = old.de[db].present
                  /\ db_elmnt[db].de_xml = old.de[db].de_xml
            /\ heap = old.heap
            /\ files = old.files)

C4_Witness ==
    /\ Returned("unlock_all")
    /\ last.ret = 0
    /\ \E d1, d2 \in Stores :
          /\ OldHolder(d1) = last.pid
          /\ OldHolder(d2) \notin {0, last.pid}
          /\ Holder(d1) = 0
          /\ \E c \in Contents : HoldsTree(db_elmnt, heap, d1, c)

\* C5: with the cache enabled, after xmldb_delete(db) the entry of db holds
\* no tree, and after xmldb_copy(from, to) the entry of `to` holds a fresh
\* copy of the tree `from` held (a live tree with that content), or no tree
\* when `from` held none.
C5_CacheInvalidated ==
    cache =>
      /\ Returned("delete") => CachedXml(db_elmnt, last.a) = NULL
      /\ (Returned("copy") /\ last.ret = 0) =>
            IF CachedXml(old.de, last.a) = NULL
            THEN CachedXml(db_elmnt, last.b) = NULL
            ELSE /\ old.heap[CachedXml(old.de, last.a)] # Free
                 /\ HoldsTree(db_elmnt, heap, last.b,
                              old.heap[CachedXml(old.de, last.a)])

\* C6: after a successful xmldb_copy(from, to), `to`'s cached tree is a
\* distinct object with the content of `from`'s, `to`'s file equals `from`'s,
\* and `from` (tree, file, holder) is as before.
C6_CopyEqual ==
    (Returned("copy") /\ last.ret = 0) =>
        /\ files[last.b] = old.files[last.a]
        /\ files[last.a] = old.files[last.a]
        /\ Holder(last.a) = OldHolder(last.a)
        /\ CachedXml(db_elmnt, last.a) = CachedXml(old.de, last.a)
        /\ cache /\ CachedXml(old.de, last.a) # NULL =>
              /\ heap[CachedXml(old.de, last.a)] = old.heap[CachedXml(old.de, last.a)]
              /\ CachedXml(db_elmnt, last.b) # CachedXml(db_elmnt, last.a)
              /\ HoldsTree(db_elmnt, heap, last.b, heap[CachedXml(db_elmnt, last.a)])

\* C7: while and after xmldb_copy writes the file of `to`, and after
\* xmldb_create opens a file, every backing file holds either what it held
\* when the operation started or the operation's complete result.
C7_NoPartialFile ==
    /\ last.op = "copy" =>
          \A db \in Stores :
             \/ files[db] = old.files[db]
             \/ db = last.b /\ files[db] = old.files[last.a]
    /\ last.op = "create" =>
          \A db \in Stores :
             \/ files[db] = old.files[db]
             \/ db = last.a /\ old.files[db] = NoFile /\ files[db] = 0

C7_Witness ==
    /\ pc = "rename"
    /\ last.a # last.b
    /\ tmpfile = old.files[last.a]
    /\ files[last.b] = old.files[last.b]
    /\ files[last.b] \notin {NoFile, tmpfile}

\* C8: whenever xmldb_copy, xmldb_delete or xmldb_create replaces or frees
\* the cached tree of a datastore, that datastore has a non-zero holder.
C8_MutatedOnlyLocked ==
    (pc = "idle" /\ last.op \in {"copy", "delete", "create"}) =>
        \A db \in Stores :
            (/\ CachedXml(old.de, db) # NULL
             /\ \/ CachedXml(db_elmnt, db) # CachedXml(old.de, db)
                \/ heap[CachedXml(old.de, db)] # old.heap[CachedXml(old.de, db)])
                => OldHolder(db) # 0

(* ------------------------------------------------------------------ *)
(* Datastore names and file names                                      *)
(* ------------------------------------------------------------------ *)

\* Names the two functions are called with.
NameInputs ==
    {"running", "candidate", "startup", "tmp",
     "result", "", "Running", "run", "tmp_db", "startup/"}

\* Values of the CLICON_XMLDB_DIR option.
Dirs == {"/usr/local/var/db", "/usr/local/var"}

\* The comment of xmldb_db2file lists "result" and no "startup".
xmldb_validate_db_result(db) ==
    IF db # "running" /\ db # "candidate" /\ db # "result" /\ db # "tmp"
    THEN -1 ELSE 0

xmldb_validate_db(db) ==
    IF db # "running" /\ db # "candidate" /\ db # "startup" /\ db # "tmp"
    THEN -1 ELSE 0

\* cprintf(cb, "%s/%s_db", dir, db); dirset = FALSE when clicon_xmldb_dir is NULL.
xmldb_db2file(dirset, dir, db) ==
    IF ~dirset THEN [ret |-> -1, filename |-> ""]
    ELSE [ret |-> 0, filename |-> dir \o "/" \o db \o "_db"]

xmldb_validate_db_call(db) ==
    /\ vres' = [db |-> db, ret |-> xmldb_validate_db(db)]
    /\ UNCHANGED <<dbvars, fres, fprev, streamvars, nacmvars, yangvars>>

xmldb_db2file_call(dirset, dir, db) ==
    /\ fres' = [dirset |-> dirset, dir |-> dir, db |-> db,
                ret |-> xmldb_db2file(dirset, dir, db).ret,
                filename |-> xmldb_db2file(dirset, dir, db).filename]
    /\ fprev' = fres
    /\ UNCHANGED <<dbvars, vres, streamvars, nacmvars, yangvars>>

InitName ==
    /\ vres = [db |-> "", ret |-> -1]
    /\ fres = [dirset |-> FALSE, dir |-> "", db |-> "", ret |-> -1, filename |-> ""]
    /\ fprev = fres

MaxFork == 2

\* Entries the STREAM_CHILD list holds at most.
MaxList == 2

\* Events a stream child writes at most.
MaxEvents == 2

\* Distinct notifications the backend sends: 1..MaxNotif.
MaxNotif == 2

\* CLICON_STREAM_PATH
streampath == "streams"

\* The URI path split at "/" (pvec of api_stream).
Paths ==
    {<<"", "streams", "NETCONF">>,
     <<"", "streams", "">>,
     <<"", "streams">>,
     <<"", "streams", "NETCONF", "x">>,
     <<"x", "streams", "NETCONF">>,
     <<"", "restconf", "NETCONF">>}

\* Query parameters (qvec): name and value, in the order given.
Qvecs ==
    {<<>>,
     <<<<"start-time", "t1">>>>,
     <<<<"stop-time", "t2">>, <<"start-time", "t1">>>>,
     <<<<"filter", "x">>, <<"stop-time", "t2">>>>}

\* One line written to r->out: "name: value\r\n", or "name\r\n" with no
\* value, or the empty line.
OutLine(name, value) == [name |-> name, value |-> value]

EmptyLine == OutLine("", "")

\* What clicon_msg_rcv and clicon_msg_decode yield in restconf_stream_cb.
Msgs ==
    [kind : {"notification"}, n : 1..MaxNotif]
        \cup [kind : {"other", "invalid", "decode_err", "rcv_err", "eof"}, n : {0}]

\* Registrations of the event loop: <<fd, callback>>.
RegStream == <<"s", "restconf_stream_cb">>

RegUplink == <<"listen_sock", "stream_checkuplink">>

\* A stream session: timers is the number of pending stream_timeout timers,
\* tsec the seconds from its registration to the expiry of the last one.
NoSess ==
    [state |-> "none", pid |-> 0, exit |-> 0, reg |-> {}, timers |-> 0, tsec |-> 0,
     sockopen |-> FALSE, uperr |-> FALSE, broken |-> FALSE,
     out |-> <<>>, rcvd |-> <<>>, lastmsg |-> "none"]

\* The create-subscription fields restconf_stream prints for qvec.
RECURSIVE SubFields(_)
SubFields(qvec) ==
    IF qvec = <<>> THEN <<>>
    ELSE LET cv == Head(qvec)
         IN  (IF cv[1] = "start-time" THEN <<<<"startTime", cv[2]>>>>
              ELSE IF cv[1] = "stop-time" THEN <<<<"stopTime", cv[2]>>>>
              ELSE <<>>) \o SubFields(Tail(qvec))

\* The reply headers without the one that turns off proxy buffering.
StreamHeaders_buffered ==
    <<<<"Content-Type", "text/event-stream">>,
      <<"Cache-Control", "no-cache">>,
      <<"Connection", "keep-alive">>>>

\* The reply headers restconf_stream sets, in order.
StreamHeaders ==
    <<<<"Content-Type", "text/event-stream">>,
      <<"Cache-Control", "no-cache">>,
      <<"Connection", "keep-alive">>,
      <<"X-Accel-Buffering", "no">>>>

NoRpc == [sent |-> FALSE, stream |-> "", fields |-> <<>>]

\* restconf_stream that does not look for an rpc-error in the reply.
restconf_stream_noerror(name, qvec, backend, hdrfail) ==
    LET rpc == [sent |-> TRUE, stream |-> name, fields |-> SubFields(qvec)]
    IN  IF backend = "fail"
        THEN [ret |-> -1, sp |-> -1, rpc |-> rpc, headers |-> <<>>, status |-> 0, err |-> ""]
        ELSE IF hdrfail \in 1..4
        THEN [ret |-> -1, sp |-> -1, rpc |-> rpc,
              headers |-> SubSeq(StreamHeaders, 1, hdrfail - 1), status |-> 0, err |-> ""]
        ELSE IF hdrfail = 5
        THEN [ret |-> -1, sp |-> -1, rpc |-> rpc, headers |-> StreamHeaders,
              status |-> 0, err |-> ""]
        ELSE [ret |-> 0, sp |-> 1, rpc |-> rpc, headers |-> StreamHeaders,
              status |-> 201, err |-> ""]

\* restconf_stream: [ret, sp, rpc, headers, status, err]. backend is what
\* clicon_rpc_netconf gives; hdrfail = k > 0 when the k-th of the four
\* restconf_reply_header calls (k = 5: restconf_reply_send) fails.
restconf_stream(name, qvec, backend, hdrfail) ==
    LET rpc == [sent |-> TRUE, stream |-> name, fields |-> SubFields(qvec)]
    IN  IF backend = "fail"
        THEN [ret |-> -1, sp |-> -1, rpc |-> rpc, headers |-> <<>>, status |-> 0, err |-> ""]
        ELSE IF backend = "rpc-error"
        THEN [ret |-> 0, sp |-> -1, rpc |-> rpc, headers |-> <<>>, status |-> 0,
              err |-> "rpc-error"]
        ELSE IF hdrfail \in 1..4
        THEN [ret |-> -1, sp |-> -1, rpc |-> rpc,
              headers |-> SubSeq(StreamHeaders, 1, hdrfail - 1), status |-> 0, err |-> ""]
        ELSE IF hdrfail = 5
        THEN [ret |-> -1, sp |-> -1, rpc |-> rpc, headers |-> StreamHeaders,
              status |-> 0, err |-> ""]
        ELSE [ret |-> 0, sp |-> 1, rpc |-> rpc, headers |-> StreamHeaders,
              status |-> 201, err |-> ""]

\* stream_timeout without the poll of the upstream: the timer is only re-armed.
TimeoutStep_nopoll(c) == [c EXCEPT !.timers = c.timers + 1, !.tsec = 1]

\* stream_timeout that registers its timer twice.
TimeoutStep_twice(c) ==
    IF c.uperr THEN [c EXCEPT !.exit = 1]
    ELSE [c EXCEPT !.timers = c.timers + 2, !.tsec = 1]

\* stream_timeout on session c: poll the upstream, re-arm the timer unless
\* it reports an error.
TimeoutStep(c) ==
    IF c.uperr THEN [c EXCEPT !.exit = 1]
    ELSE [c EXCEPT !.timers = c.timers + 1, !.tsec = 1]

\* The child side of fork() in api_stream up to clixon_event_loop.
ChildStart(pid) ==
    TimeoutStep([NoSess EXCEPT !.state = "loop", !.pid = pid,
                               !.reg = {RegStream, RegUplink}, !.sockopen = TRUE])

\* Places where api_stream can fail before it handles the stream.
ApiFail == {"none", "uripath", "strsep", "invalid_value_xml", "str2cvec", "indata", "malloc"}

\* Only an error of the authentication callback stops the request.
Authenticated_noerror(ret) == ~(ret < 0)

\* The request goes on after restconf_authentication_cb returned ret.
Authenticated(ret) == ~(ret < 0) /\ ~(ret = 0)

\* The sanity check of the path with only the number of parts tested.
PathOk_count(pvec) == Len(pvec) = 3

PathOk(pvec) == Len(pvec) = 3 /\ Len(pvec[1]) = 0 /\ pvec[2] = streampath

Req(pvec, qvec, fail, auth, backend, hdrfail, forkok) ==
    [pvec |-> pvec, qvec |-> qvec, fail |-> fail, auth |-> auth, backend |-> backend,
     hdrfail |-> hdrfail, forkok |-> forkok,
     ret |-> -1, finish |-> 1, authcalled |-> FALSE, rpc |-> NoRpc, headers |-> <<>>,
     status |-> 0, err |-> "", pid |-> 0]

\* Inputs that are never read take one value.
ReqCanonical(pvec, qvec, fail, auth, backend, hdrfail, forkok) ==
    LET early == fail \in {"uripath", "strsep", "str2cvec", "indata"} \/ ~PathOk(pvec)
    IN  /\ fail = "invalid_value_xml" => ~PathOk(pvec)
        /\ fail \in {"uripath", "strsep"} => pvec = <<"", "streams", "NETCONF">>
        /\ early => qvec = <<>> /\ auth = 1
        /\ (early \/ auth # 1) => backend = "ok" /\ fail # "malloc"
        /\ (early \/ auth # 1 \/ backend # "ok") => hdrfail = 0
        /\ (early \/ auth # 1 \/ backend # "ok" \/ hdrfail # 0) => forkok /\ fail # "malloc"

\* The inputs api_stream is run on.
ReqInputs ==
    {i \in Paths \X Qvecs \X ApiFail \X {-1, 0, 1} \X {"ok", "rpc-error", "fail"}
              \X (0..5) \X BOOLEAN :
        ReqCanonical(i[1], i[2], i[3], i[4], i[5], i[6], i[7])}

api_stream(pvec, qvec, fail, auth, backend, hdrfail, forkok) ==
    LET r0 == Req(pvec, qvec, fail, auth, backend, hdrfail, forkok)
        rs == restconf_stream(pvec[3], qvec, backend, hdrfail)
        r1 == [r0 EXCEPT !.authcalled = TRUE]
        r2 == [r1 EXCEPT !.rpc = rs.rpc, !.headers = rs.headers,
                         !.status = rs.status, !.err = rs.err]
        pid == IF forkok THEN forked + 1 ELSE -1
    IN  /\ IF fail \in {"uripath", "strsep"}
           THEN /\ req' = r0
                /\ UNCHANGED <<STREAM_CHILD, forked, sess>>
           ELSE IF ~PathOk(pvec)
           THEN /\ req' = IF fail = "invalid_value_xml" THEN r0
                          ELSE [r0 EXCEPT !.err = "invalid-value protocol", !.ret = 0]
                /\ UNCHANGED <<STREAM_CHILD, forked, sess>>
           ELSE IF fail \in {"str2cvec", "indata"}
           THEN /\ req' = r0
                /\ UNCHANGED <<STREAM_CHILD, forked, sess>>
           ELSE IF ~Authenticated(auth)
           THEN /\ req' = IF auth < 0 THEN r1
                          ELSE [r1 EXCEPT !.err = "access-denied protocol", !.ret = 0]
                /\ UNCHANGED <<STREAM_CHILD, forked, sess>>
           ELSE IF rs.ret < 0
           THEN /\ req' = r2
                /\ UNCHANGED <<STREAM_CHILD, forked, sess>>
           ELSE IF rs.sp = -1
           THEN /\ req' = [r2 EXCEPT !.ret = 0]
                /\ UNCHANGED <<STREAM_CHILD, forked, sess>>
           ELSE /\ forkok => forked < MaxFork
                /\ Len(STREAM_CHILD) < MaxList
                /\ forked' = IF forkok THEN forked + 1 ELSE forked
                /\ sess' = IF forkok /\ sess.state # "loop" THEN ChildStart(pid) ELSE sess
                /\ IF fail = "malloc"
                   THEN /\ req' = [r2 EXCEPT !.pid = pid]
                        /\ UNCHANGED STREAM_CHILD
                   ELSE /\ req' = [r2 EXCEPT !.pid = pid, !.finish = 0, !.ret = 0]
                        /\ STREAM_CHILD' = Append(STREAM_CHILD, pid)
        /\ UNCHANGED <<dbvars, namevars, nacmvars, yangvars>>

\* The first entry with sc_pid = pid is unlinked and freed.
RECURSIVE DelFirst(_, _)
DelFirst(q, pid) ==
    IF q = <<>> THEN <<>>
    ELSE IF Head(q) = pid THEN Tail(q)
    ELSE <<Head(q)>> \o DelFirst(Tail(q), pid)

stream_child_free(pid) ==
    /\ STREAM_CHILD' = DelFirst(STREAM_CHILD, pid)
    /\ UNCHANGED <<dbvars, namevars, nacmvars, yangvars, forked, req, sess>>

stream_child_freeall ==
    /\ STREAM_CHILD' = <<>>
    /\ UNCHANGED <<dbvars, namevars, nacmvars, yangvars, forked, req, sess>>

\* The event loop of the child dispatches while the exit flag is clear and no
\* callback has returned an error.
Looping == sess.state = "loop" /\ sess.exit = 0 /\ ~sess.broken

\* The event written ahead of what r->out already holds.
WriteEvent_front(out, n) == <<OutLine("data", n), EmptyLine>> \o out

\* The event of notification n written to r->out and flushed.
WriteEvent(out, n) == out \o <<OutLine("data", n), EmptyLine>>

\* restconf_stream_cb with the "notused" lines compiled in: an id field is
\* written before the data.
restconf_stream_cb_id(msg) ==
    /\ Looping
    /\ RegStream \in sess.reg
    /\ msg.kind = "notification" => Len(sess.rcvd) < MaxEvents
    /\ sess' =
         IF msg.kind = "rcv_err" THEN [sess EXCEPT !.broken = TRUE, !.lastmsg = msg.kind]
         ELSE IF msg.kind = "eof"
         THEN [sess EXCEPT !.out = @ \o <<OutLine("SHUTDOWN", ""), EmptyLine>>,
                           !.exit = 1, !.broken = TRUE, !.lastmsg = msg.kind]
         ELSE IF msg.kind \in {"decode_err", "invalid"}
         THEN [sess EXCEPT !.broken = TRUE, !.lastmsg = msg.kind]
         ELSE IF msg.kind = "other" THEN [sess EXCEPT !.lastmsg = msg.kind]
         ELSE [sess EXCEPT !.out = @ \o <<OutLine("id", msg.n), OutLine("data", msg.n),
                                          EmptyLine>>,
                           !.rcvd = Append(@, msg.n), !.lastmsg = msg.kind]
    /\ UNCHANGED <<dbvars, namevars, nacmvars, yangvars, STREAM_CHILD, forked, req>>

\* restconf_stream_cb that writes SHUTDOWN on eof but neither sets the exit
\* flag nor returns an error.
restconf_stream_cb_eofok(msg) ==
    /\ Looping
    /\ RegStream \in sess.reg
    /\ msg.kind = "notification" => Len(sess.rcvd) < MaxEvents
    /\ msg.kind = "eof" => \A i \in 1..Len(sess.out) : sess.out[i].name # "SHUTDOWN"
    /\ sess' =
         IF msg.kind = "rcv_err" THEN [sess EXCEPT !.broken = TRUE, !.lastmsg = msg.kind]
         ELSE IF msg.kind = "eof"
         THEN [sess EXCEPT !.out = @ \o <<OutLine("SHUTDOWN", ""), EmptyLine>>,
                           !.lastmsg = msg.kind]
         ELSE IF msg.kind \in {"decode_err", "invalid"}
         THEN [sess EXCEPT !.broken = TRUE, !.lastmsg = msg.kind]
         ELSE IF msg.kind = "other" THEN [sess EXCEPT !.lastmsg = msg.kind]
         ELSE [sess EXCEPT !.out = WriteEvent(@, msg.n),
                           !.rcvd = Append(@, msg.n), !.lastmsg = msg.kind]
    /\ UNCHANGED <<dbvars, namevars, nacmvars, yangvars, STREAM_CHILD, forked, req>>

restconf_stream_cb(msg) ==
    /\ Looping
    /\ RegStream \in sess.reg
    /\ msg.kind = "notification" => Len(sess.rcvd) < MaxEvents
    /\ sess' =
         IF msg.kind = "rcv_err" THEN [sess EXCEPT !.broken = TRUE, !.lastmsg = msg.kind]
         ELSE IF msg.kind = "eof"
         THEN [sess EXCEPT !.out = @ \o <<OutLine("SHUTDOWN", ""), EmptyLine>>,
                           !.exit = 1, !.broken = TRUE, !.lastmsg = msg.kind]
         ELSE IF msg.kind \in {"decode_err", "invalid"}
         THEN [sess EXCEPT !.broken = TRUE, !.lastmsg = msg.kind]
         ELSE IF msg.kind = "other" THEN [sess EXCEPT !.lastmsg = msg.kind]
         ELSE [sess EXCEPT !.out = WriteEvent(@, msg.n),
                           !.rcvd = Append(@, msg.n), !.lastmsg = msg.kind]
    /\ UNCHANGED <<dbvars, namevars, nacmvars, yangvars, STREAM_CHILD, forked, req>>

stream_checkuplink ==
    /\ Looping
    /\ RegUplink \in sess.reg
    /\ sess' = IF sess.uperr THEN [sess EXCEPT !.exit = 1] ELSE sess
    /\ UNCHANGED <<dbvars, namevars, nacmvars, yangvars, STREAM_CHILD, forked, req>>

\* The timer fires: it is taken off the timer list, then stream_timeout runs.
stream_timeout ==
    /\ Looping
    /\ sess.timers > 0
    /\ sess' = TimeoutStep([sess EXCEPT !.timers = @ - 1])
    /\ UNCHANGED <<dbvars, namevars, nacmvars, yangvars, STREAM_CHILD, forked, req>>

\* The client or the proxy closes the connection: FCGX_GetError(r->out) != 0.
uplink_close ==
    /\ sess.state = "loop"
    /\ ~sess.uperr
    /\ sess' = [sess EXCEPT !.uperr = TRUE]
    /\ UNCHANGED <<dbvars, namevars, nacmvars, yangvars, STREAM_CHILD, forked, req>>

\* clixon_event_loop has returned: the child's tail of api_stream up to exit(0).
\* clixon_event_unreg_fd removes the registration of that fd with that callback.
api_stream_child_exit ==
    /\ sess.state = "loop"
    /\ ~Looping
    /\ sess' = [sess EXCEPT
                  !.sockopen = FALSE,
                  !.reg = (@ \ {RegStream}) \ {<<"listen_sock", "restconf_stream_cb">>},
                  !.timers = IF @ > 0 THEN @ - 1 ELSE 0,
                  !.exit = 0,
                  !.state = "exited"]
    /\ UNCHANGED <<dbvars, namevars, nacmvars, yangvars, STREAM_CHILD, forked, req>>

InitStream ==
    /\ STREAM_CHILD = <<>>
    /\ forked = 0
    /\ req = Req(<<>>, <<>>, "none", 1, "ok", 0, TRUE)
    /\ sess = NoSess

\* C10: everything a stream child writes for received notifications is a
\* sequence of events "data: <notification>" plus an empty line (or the
\* SHUTDOWN record plus an empty line); no id or event field is written; and
\* the reply the child writes on was given Content-Type text/event-stream.
C10_EventForm ==
    /\ \A i \in 1..Len(sess.out) :
          /\ sess.out[i].name \in {"data", "", "SHUTDOWN"}
          /\ sess.out[i].name = "data" =>
                /\ sess.out[i].value \in 1..MaxNotif
                /\ i < Len(sess.out)
                /\ sess.out[i + 1] = EmptyLine
          /\ sess.out[i] = EmptyLine =>
                /\ i > 1
                /\ sess.out[i - 1].name \in {"data", "SHUTDOWN"}
    /\ (sess.state # "none" /\ req.pid = sess.pid) =>
          /\ <<"Content-Type", "text/event-stream">> \in {req.headers[i] : i \in 1..Len(req.headers)}
          /\ req.status = 201

C10_Witness ==
    /\ Len(sess.out) = 4
    /\ sess.out[1] = OutLine("data", 2)
    /\ sess.out[3] = OutLine("data", 1)
    /\ req.pid = sess.pid

\* C22: xmldb_copy, xmldb_delete, xmldb_create and xmldb_disconnect leave
\* the lock holder of every datastore as it was.
C22_HolderFrame ==
    last.op \in {"copy", "delete", "create", "disconnect"} =>
        \A db \in Stores : Holder(db) = OldHolder(db)

\* A copy onto a locked datastore whose cached tree was replaced.
C22_Witness ==
    /\ Returned("copy")
    /\ last.ret = 0
    /\ last.a # last.b
    /\ OldHolder(last.b) = 2
    /\ CachedXml(old.de, last.b) # NULL
    /\ CachedXml(db_elmnt, last.b) # NULL

\* C23: when xmldb_copy returns an error, the cache entry of `to` references
\* no freed tree, and the cached tree and the backing file of `to` are as
\* they were before the call.
C23_CopyErrorLeavesTo ==
    (Returned("copy") /\ last.ret = -1) =>
        /\ CachedXml(db_elmnt, last.b) # NULL => heap[CachedXml(db_elmnt, last.b)] # Free
        /\ CachedXml(db_elmnt, last.b) = CachedXml(old.de, last.b)
        /\ CachedXml(db_elmnt, last.b) # NULL =>
              heap[CachedXml(db_elmnt, last.b)] = old.heap[CachedXml(old.de, last.b)]
        /\ files[last.b] = old.files[last.b]

\* C24: xmldb_exists is 1 exactly when the backing file exists; it is 1 after
\* xmldb_create and 0 after xmldb_delete; and an xmldb_delete that returns 0
\* on a datastore with no file has changed nothing.
C24_ExistsCreateDelete ==
    /\ \A db \in Stores : xmldb_exists(files, db) = 1 <=> files[db] # NoFile
    /\ (Returned("create") /\ last.ret = 0) => xmldb_exists(files, last.a) = 1
    /\ (Returned("delete") /\ last.ret = 0) => xmldb_exists(files, last.a) = 0
    /\ (Returned("delete") /\ last.ret = 0 /\ xmldb_exists(old.files, last.a) = 0) =>
          Snapshot = old

\* C25: after xmldb_create(db) the cached tree of db is discarded and the
\* backing file exists; the file of a datastore that already existed has the
\* content it had.
C25_CreateKeeps ==
    (Returned("create") /\ last.ret = 0) =>
        /\ cache => CachedXml(db_elmnt, last.a) = NULL
        /\ (cache /\ CachedXml(old.de, last.a) # NULL) =>
              heap[CachedXml(old.de, last.a)] = Free
        /\ files[last.a] # NoFile
        /\ old.files[last.a] # NoFile => files[last.a] = old.files[last.a]
        /\ \A db \in Stores \ {last.a} : files[db] = old.files[db]

\* An existing datastore with content and a cached tree is created again.
C25_Witness ==
    /\ Returned("create")
    /\ last.ret = 0
    /\ cache
    /\ CachedXml(old.de, last.a) # NULL
    /\ old.files[last.a] = 1
    /\ files[last.a] = 1

\* C26: xmldb_unlock(db) sets the holder of db to 0 whoever holds it, and
\* leaves the cached tree of db and the holder of every other datastore as
\* they were.
C26_UnlockAnyHolder ==
    Returned("unlock") =>
        /\ last.ret = 0
        /\ Holder(last.a) = 0
        /\ \A db \in Stores \ {last.a} : Holder(db) = OldHolder(db)
        /\ \A db \in Stores : CachedXml(db_elmnt, db) = CachedXml(old.de, db)
        /\ heap = old.heap
        /\ files = old.files

\* Both datastores were held, the unlocked one with a cached tree.
C26_Witness ==
    /\ Returned("unlock")
    /\ OldHolder(last.a) = 2
    /\ Holder(last.a) = 0
    /\ CachedXml(db_elmnt, last.a) # NULL
    /\ \E db \in Stores \ {last.a} : Holder(db) = 1

\* C27: after xmldb_disconnect no entry holds a cached tree: every tree that
\* was cached is freed; the backing files are untouched, so xmldb_exists is
\* as before for every datastore.
C27_DisconnectDropsCache ==
    (Returned("disconnect") /\ last.ret = 0) =>
        /\ \A db \in Stores :
              /\ CachedXml(db_elmnt, db) = NULL
              /\ CachedXml(old.de, db) # NULL => heap[CachedXml(old.de, db)] = Free
              /\ xmldb_exists(files, db) = xmldb_exists(old.files, db)
        /\ files = old.files

C27_Witness ==
    /\ Returned("disconnect")
    /\ last.ret = 0
    /\ \A db \in Stores : CachedXml(old.de, db) # NULL /\ files[db] # NoFile

\* C28: a path that is not /<streampath>/<name> (three parts, the first
\* empty, the second the stream path) gets the invalid-value protocol error
\* and return value 0, with no authentication callback, no create-subscription
\* and no fork; a path of that form is passed on to authentication.
C28_PathCheck ==
    [][(req' # req /\ req'.fail \notin {"uripath", "strsep"}) =>
          IF Len(req'.pvec) = 3 /\ req'.pvec[1] = "" /\ req'.pvec[2] = "streams"
          THEN req'.fail = "none" => req'.authcalled
          ELSE /\ ~req'.authcalled
               /\ ~req'.rpc.sent
               /\ req'.pid = 0
               /\ req'.finish = 1
               /\ UNCHANGED <<STREAM_CHILD, forked, sess>>
               /\ req'.fail = "none" =>
                     (req'.err = "invalid-value protocol" /\ req'.ret = 0)]_vars

C28_Witness ==
    /\ req.pvec = <<"x", "streams", "NETCONF">>
    /\ req.err = "invalid-value protocol"
    /\ req.ret = 0
    /\ Len(STREAM_CHILD) = 1

C30_SessionOrder ==
    /\ req.authcalled =>
          (Len(req.pvec) = 3 /\ req.pvec[1] = "" /\ req.pvec[2] = "streams")
    /\ req.rpc.sent => (req.authcalled /\ req.auth = 1)
    /\ req.headers # <<>> => (req.rpc.sent /\ req.backend = "ok")
    /\ req.status # 0 =>
          /\ req.status = 201
          /\ req.headers = <<<<"Content-Type", "text/event-stream">>,
                             <<"Cache-Control", "no-cache">>,
                             <<"Connection", "keep-alive">>,
                             <<"X-Accel-Buffering", "no">>>>
    /\ req.pid # 0 => req.status = 201
    /\ sess.state # "none" => (req.pid = sess.pid /\ req.status = 201)
    /\ sess.out # <<>> => (sess.state # "none" /\ req.status = 201)

C30_Witness ==
    /\ sess.state = "loop"
    /\ Len(sess.out) = 2
    /\ sess.out[1].name = "data"
    /\ req.status = 201
    /\ req.qvec # <<>>

\* The list q without its i-th entry.
WithoutEntry(q, i) == SubSeq(q, 1, i - 1) \o SubSeq(q, i + 1, Len(q))

\* C31: STREAM_CHILD holds one entry for each forked stream child that was
\* not freed: a request that forks a child appends that child's pid and sets
\* finish to 0, nothing else adds an entry; stream_child_free takes out the
\* entry of one pid and no other (nothing when there is none), and
\* stream_child_freeall empties the list; the entries are pids of forked
\* children, no pid twice.
C31_ChildList ==
    [][/\ forked' # forked =>
             (STREAM_CHILD' = Append(STREAM_CHILD, forked') /\ req'.finish = 0)
       /\ forked' = forked =>
             \/ STREAM_CHILD' = STREAM_CHILD
             \/ STREAM_CHILD' = <<>>
             \/ \E i \in 1..Len(STREAM_CHILD) :
                   /\ STREAM_CHILD' = WithoutEntry(STREAM_CHILD, i)
                   /\ \A j \in 1..Len(STREAM_CHILD') : STREAM_CHILD'[j] # STREAM_CHILD[i]
       /\ \A i \in 1..Len(STREAM_CHILD') :
             /\ STREAM_CHILD'[i] \in 1..forked'
             /\ \A j \in 1..Len(STREAM_CHILD') : STREAM_CHILD'[j] = STREAM_CHILD'[i] => j = i]_vars

\* C32: a request whose fork() fails ends with an error, adds no entry to
\* STREAM_CHILD and leaves finish at 1; every pid in STREAM_CHILD is the pid
\* of a child that was created.
C32_ForkFailure ==
    /\ (req.status = 201 /\ ~req.forkok) =>
          /\ req.ret = -1
          /\ req.finish = 1
    /\ \A i \in 1..Len(STREAM_CHILD) : STREAM_CHILD[i] \in 1..forked

\* C33: when the backend closes the subscription socket, restconf_stream_cb
\* writes the SHUTDOWN record, sets the exit flag and returns an error; the
\* SHUTDOWN record is the last one of the stream, and the child then leaves
\* the event loop and exits.
C33_BackendClose ==
    /\ [](/\ sess.lastmsg = "eof" =>
                /\ Len(sess.out) >= 2
                /\ sess.out[Len(sess.out) - 1] = OutLine("SHUTDOWN", "")
                /\ sess.broken
                /\ sess.state = "loop" => sess.exit = 1
          /\ \A i \in 1..Len(sess.out) :
                sess.out[i].name = "SHUTDOWN" =>
                   /\ i = Len(sess.out) - 1
                   /\ sess.out[i + 1] = EmptyLine)
    /\ (sess.lastmsg = "eof") ~> (sess.state = "exited")

C33_Witness ==
    /\ sess.state = "exited"
    /\ sess.lastmsg = "eof"
    /\ Len(sess.out) = 4
    /\ sess.out[1].name = "data"
    /\ sess.out[3].name = "SHUTDOWN"

\* C34: a live stream session has exactly one pending stream_timeout timer,
\* due one second after it was registered; the number of pending timers of a
\* session in its event loop changes only when an expiry finds an upstream
\* error, which sets the exit flag and leaves no timer.
C34_OneTimer ==
    [][/\ (sess'.state = "loop" /\ sess'.exit = 0 /\ ~sess'.broken) =>
             (sess'.timers = 1 /\ sess'.tsec = 1)
       /\ sess'.state = "loop" => sess'.timers \in {0, 1}
       /\ (sess.state = "loop" /\ sess'.state = "loop" /\ sess'.timers # sess.timers) =>
             /\ sess.uperr
             /\ sess.exit = 0
             /\ sess'.exit = 1
             /\ sess'.timers = 0]_vars

C34_Witness ==
    /\ sess.state = "loop"
    /\ sess.uperr
    /\ sess.exit = 1
    /\ sess.timers = 0
    /\ Len(sess.out) = 2

\* C35: when the child has left the event loop and finished, nothing it
\* registered is left: no callback on the backend socket or on the listen
\* socket, no pending stream_timeout timer; the backend socket is closed and
\* the exit flag is 0 again.
C35_AllUnregistered ==
    sess.state = "exited" =>
        /\ sess.reg = {}
        /\ sess.timers = 0
        /\ ~sess.sockopen
        /\ sess.exit = 0

\* C18: when the authentication callback does not accept a stream request,
\* api_stream sends no create-subscription, forks no child, adds no entry to
\* STREAM_CHILD and leaves finish alone; a request that is not authenticated
\* is answered with access-denied, error-type protocol.
C18_AuthFailNoEffect ==
    [][(req' # req /\ req'.authcalled /\ req'.auth # 1) =>
          /\ UNCHANGED <<STREAM_CHILD, forked, sess>>
          /\ ~req'.rpc.sent
          /\ req'.finish = 1
          /\ req'.pid = 0
          /\ req'.headers = <<>>
          /\ req'.auth = 0 => (req'.err = "access-denied protocol" /\ req'.ret = 0)
          /\ req'.auth < 0 => req'.ret = -1]_vars

C18_Witness ==
    /\ req.authcalled
    /\ req.auth = 0
    /\ req.err = "access-denied protocol"
    /\ ~req.rpc.sent
    /\ Len(STREAM_CHILD) = 1

\* The element of create-subscription that carries a query parameter.
SubElement(vname) ==
    IF vname = "start-time" THEN "startTime"
    ELSE IF vname = "stop-time" THEN "stopTime"
    ELSE vname

\* C11: the create-subscription sent to the backend carries the stream name
\* of the URI and each start-time, stop-time and filter parameter of the
\* request.
C11_SubscriptionCarriesAll ==
    req.rpc.sent =>
        /\ req.rpc.stream = req.pvec[3]
        /\ \A i \in 1..Len(req.qvec) :
              req.qvec[i][1] \in {"start-time", "stop-time", "filter"} =>
                 \E j \in 1..Len(req.rpc.fields) :
                    req.rpc.fields[j] = <<SubElement(req.qvec[i][1]), req.qvec[i][2]>>

\* C12: once the upstream connection of a stream session reports an error,
\* the session eventually leaves the event loop, closes the backend socket,
\* drops its timer and terminates.
C12_UplinkCloseTerminates ==
    (sess.state = "loop" /\ sess.uperr)
        ~> (sess.state = "exited" /\ ~sess.sockopen /\ sess.timers = 0)

C12_Witness ==
    /\ sess.state = "exited"
    /\ sess.uperr
    /\ ~sess.broken
    /\ ~sess.sockopen
    /\ Len(sess.out) = 2

\* The values of the data records of r->out, in the order written.
RECURSIVE DataRecords(_)
DataRecords(out) ==
    IF out = <<>> THEN <<>>
    ELSE (IF Head(out).name = "data" THEN <<Head(out).value>> ELSE <<>>)
             \o DataRecords(Tail(out))

MaxVal == 2

\* andy, wilma and guest of the test, and a user that is in no group.
NacmUsers == {"andy", "wilma", "guest", "nobody"}

\* The groups of a user.
NacmGroups(user) ==
    IF user = "andy" THEN {"admin"}
    ELSE IF user = "wilma" THEN {"limited"}
    ELSE IF user = "guest" THEN {"guest"}
    ELSE {}

\* A rule; rpc = "" and path = "" stand for an absent rpc-name and path.
Rule(name, module, rpc, path, ops, action) ==
    [name |-> name, module |-> module, rpc |-> rpc, path |-> path, ops |-> ops,
     action |-> action]

AllOps == {"create", "read", "update", "delete", "exec"}

GuestAcl ==
    [name |-> "guest-acl", group |-> {"guest"},
     rules |-> <<Rule("deny-ncm", "*", "", "", AllOps, "deny")>>]

LimitedAcl ==
    [name |-> "limited-acl", group |-> {"limited"},
     rules |-> <<Rule("permit-get", "*", "get", "", {"exec"}, "permit"),
                 Rule("permit-get-config", "*", "get-config", "", {"exec"}, "permit")>>]

AdminAcl ==
    [name |-> "admin-acl", group |-> {"admin"},
     rules |-> <<Rule("permit-all", "*", "", "", AllOps, "permit")>>]

\* limited-acl with a rule ahead of the others that denies read of a subtree,
\* and a rule after them that permits every read.
LimitedAclDenyRead ==
    [LimitedAcl EXCEPT
        !.rules = <<Rule("deny-auth", "nacm-example", "", "/authentication", {"read"},
                         "deny")>>
                  \o @ \o <<Rule("permit-read", "*", "", "", {"read"}, "permit")>>]

NacmFile(lists) ==
    [enable |-> TRUE, read_default |-> "permit", write_default |-> "deny",
     exec_default |-> "deny", rule_lists |-> lists]

\* The NACM configurations: 1 is the nacmfile of the test.
NacmConfigs ==
    <<NacmFile(<<GuestAcl, LimitedAcl, AdminAcl>>),
      NacmFile(<<GuestAcl, LimitedAclDenyRead, AdminAcl>>)>>

\* The data nodes of module nacm-example and the parent of each.
DataNodes == {"/x", "/authentication", "/authentication/auth"}

Parent(node) == IF node = "/authentication/auth" THEN "/authentication" ELSE ""

\* An access to check: an rpc by name, or a data node by path.
Access(kind, module, name, op) == [kind |-> kind, module |-> module, name |-> name, op |-> op]

\* Step 5: does the rule match the access?
RuleMatch(rule, a) ==
    /\ rule.module \in {"*", a.module}
    /\ rule.rpc # "" => (a.kind = "rpc" /\ rule.rpc \in {"*", a.name})
    /\ rule.path # "" => (a.kind = "data" /\ rule.path = a.name)
    /\ a.op \in rule.ops

\* Step 4: the rules of the rule-lists of the user's groups, in configured order.
RECURSIVE MatchList(_, _)
MatchList(lists, groups) ==
    IF lists = <<>> THEN <<>>
    ELSE (IF Head(lists).group \cap groups # {} THEN Head(lists).rules ELSE <<>>)
             \o MatchList(Tail(lists), groups)

\* The last rule that matches decides.
RECURSIVE LastMatch(_, _, _)
LastMatch(rules, a, default) ==
    IF rules = <<>>
    THEN [action |-> default, message |-> "default deny"]
    ELSE LET rest == LastMatch(Tail(rules), a, default)
         IN  IF rest.message = "default deny" /\ RuleMatch(Head(rules), a)
             THEN [action |-> Head(rules).action, message |-> "access denied"]
             ELSE rest

\* Steps 6 and 7 over the match list: the first rule that matches decides.
RECURSIVE FirstMatch(_, _, _)
FirstMatch(rules, a, default) ==
    IF rules = <<>>
    THEN [action |-> default, message |-> "default deny"]
    ELSE IF RuleMatch(Head(rules), a)
    THEN [action |-> Head(rules).action, message |-> "access denied"]
    ELSE FirstMatch(Tail(rules), a, default)

NacmDefault(cfg, op) ==
    IF op = "read" THEN cfg.read_default
    ELSE IF op = "exec" THEN cfg.exec_default
    ELSE cfg.write_default

\* The evaluation of one access: [action, message].
NacmEval(cfg, user, a) ==
    IF ~cfg.enable THEN [action |-> "permit", message |-> ""]
    ELSE FirstMatch(MatchList(cfg.rule_lists, NacmGroups(user)), a, NacmDefault(cfg, a.op))

NoErr == [tag |-> "", type |-> "", severity |-> "", message |-> ""]

AccessDenied(type, message) ==
    [tag |-> "access-denied", type |-> type, severity |-> "error", message |-> message]

\* The error-type a front-end reports for a denied rpc.
RpcErrorType(frontend) == IF frontend = "restconf" THEN "application" ELSE "protocol"

\* A node is in the reply when neither it nor an ancestor is denied read.
RECURSIVE Visible(_, _, _)
Visible(cfg, user, node) ==
    /\ NacmEval(cfg, user, Access("data", "nacm-example", node, "read")).action = "permit"
    /\ Parent(node) # "" => Visible(cfg, user, Parent(node))

\* A node is in the reply when it is not itself denied read.
ReadFilter_flat(cfg, user, x) ==
    {[node |-> n, value |-> IF n = "/x" THEN x ELSE 0] :
        n \in {m \in DataNodes :
                 NacmEval(cfg, user, Access("data", "nacm-example", m, "read")).action
                     = "permit"}}

\* The result tree after the read filter: node and value.
ReadFilter(cfg, user, x) ==
    {[node |-> n, value |-> IF n = "/x" THEN x ELSE 0] :
        n \in {m \in DataNodes : Visible(cfg, user, m)}}

NacmReq(op, frontend, user, v, a, e, err, data, executed) ==
    [op |-> op, frontend |-> frontend, user |-> user, v |-> v, cfg |-> nacm.cfg,
     access |-> a, eval |-> e, err |-> err, data |-> data, executed |-> executed]

\* GET of the data resource over RESTCONF (rpc get), or show conf in the CLI
\* (rpc get-config).
nacm_get(frontend, user) ==
    LET cfg == NacmConfigs[nacm.cfg]
        a == Access("rpc", "ietf-netconf",
                    IF frontend = "restconf" THEN "get" ELSE "get-config", "exec")
        e == NacmEval(cfg, user, a)
    IN  /\ nacm' = [nacm EXCEPT !.last =
                      IF e.action = "permit"
                      THEN NacmReq("get", frontend, user, 0, a, e, NoErr,
                                   ReadFilter(cfg, user, nacm.x), TRUE)
                      ELSE NacmReq("get", frontend, user, 0, a, e,
                                   AccessDenied(RpcErrorType(frontend), e.message),
                                   {}, FALSE)]
        /\ UNCHANGED <<dbvars, namevars, streamvars, yangvars>>

\* PUT of /nacm-example:x over RESTCONF that stores the value whether or not
\* the write is permitted.
nacm_put_unchecked(user, v) ==
    LET cfg == NacmConfigs[nacm.cfg]
        a == Access("data", "nacm-example", "/x", "update")
        e == NacmEval(cfg, user, a)
    IN  /\ nacm' = IF e.action = "permit"
                   THEN [nacm EXCEPT !.x = v, !.okval = v, !.last =
                           NacmReq("put", "restconf", user, v, a, e, NoErr, {}, TRUE)]
                   ELSE [nacm EXCEPT !.x = v, !.last =
                           NacmReq("put", "restconf", user, v, a, e,
                                   AccessDenied("application", e.message), {}, FALSE)]
        /\ UNCHANGED <<dbvars, namevars, streamvars, yangvars>>

\* PUT of /nacm-example:x over RESTCONF.
nacm_put(user, v) ==
    LET cfg == NacmConfigs[nacm.cfg]
        a == Access("data", "nacm-example", "/x", "update")
        e == NacmEval(cfg, user, a)
    IN  /\ nacm' = IF e.action = "permit"
                   THEN [nacm EXCEPT !.x = v, !.okval = v, !.last =
                           NacmReq("put", "restconf", user, v, a, e, NoErr, {}, TRUE)]
                   ELSE [nacm EXCEPT !.last =
                           NacmReq("put", "restconf", user, v, a, e,
                                   AccessDenied("application", e.message), {}, FALSE)]
        /\ UNCHANGED <<dbvars, namevars, streamvars, yangvars>>

\* The reply data of the example rpc.
RpcOutput == {[node |-> "y", value |-> 42]}

\* rpc ipv4 of module clixon-example in the CLI.
nacm_rpc(user) ==
    LET cfg == NacmConfigs[nacm.cfg]
        a == Access("rpc", "clixon-example", "example", "exec")
        e == NacmEval(cfg, user, a)
    IN  /\ nacm' = [nacm EXCEPT !.last =
                      IF e.action = "permit"
                      THEN NacmReq("rpc", "cli", user, 0, a, e, NoErr, RpcOutput, TRUE)
                      ELSE NacmReq("rpc", "cli", user, 0, a, e,
                                   AccessDenied(RpcErrorType("cli"), e.message),
                                   {}, FALSE)]
        /\ UNCHANGED <<dbvars, namevars, streamvars, yangvars>>

\* The NACM configuration changes: the rules are read again.
nacm_load(c) ==
    /\ nacm' = [nacm EXCEPT !.cfg = c]
    /\ UNCHANGED <<dbvars, namevars, streamvars, yangvars>>

InitNacm ==
    nacm = [cfg |-> 1, x |-> 0, okval |-> 0,
            last |-> [op |-> "none", frontend |-> "", user |-> "", v |-> 0, cfg |-> 1,
                      access |-> Access("", "", "", ""),
                      eval |-> [action |-> "", message |-> ""],
                      err |-> NoErr, data |-> {}, executed |-> FALSE]]

\* The accesses the evaluation is examined on.
AccessInputs ==
    {Access("rpc", "ietf-netconf", n, "exec") : n \in {"get", "get-config", "edit-config"}}
        \cup {Access("rpc", "clixon-example", "example", "exec")}
        \cup {Access("data", "nacm-example", n, op) : n \in DataNodes, op \in {"read", "update"}}

\* The action of the first rule of the match list that matches, or the default.
FirstMatchAction(cfg, user, a) ==
    LET rules == MatchList(cfg.rule_lists, NacmGroups(user))
        hits == {i \in 1..Len(rules) : RuleMatch(rules[i], a)}
    IN  IF hits = {} THEN NacmDefault(cfg, a.op)
        ELSE rules[CHOOSE i \in hits : \A j \in hits : i <= j].action

C15_DeniedWrite ==
    /\ nacm.x = nacm.okval
    /\ (nacm.last.op = "put" /\ nacm.last.eval.action = "deny") =>
          /\ nacm.last.err = AccessDenied("application", nacm.last.eval.message)
          /\ ~nacm.last.executed
    /\ (nacm.last.op = "get" /\ nacm.last.err = NoErr) =>
          \A d \in nacm.last.data : d.node = "/x" => d.value = nacm.okval

C15_Witness ==
    /\ nacm.last.op = "put"
    /\ nacm.last.user = "guest"
    /\ nacm.last.v = 2
    /\ nacm.last.err = AccessDenied("application", "access denied")
    /\ nacm.okval = 1

\* C16: a denied rpc is answered with access-denied, error-type protocol, and
\* is not executed: it produces no reply data.
C16_DeniedRpc ==
    (nacm.last.op # "none" /\ nacm.last.access.kind = "rpc"
        /\ nacm.last.eval.action = "deny") =>
          /\ nacm.last.err.tag = "access-denied"
          /\ nacm.last.err.type = "protocol"
          /\ ~nacm.last.executed
          /\ nacm.last.data = {}

\* A node and its ancestors.
AncestorsOrSelf(node) == {node} \cup ({Parent(node), Parent(Parent(node))} \ {""})

\* C17: a permitted get or get-config is answered without error by the result
\* tree less every node denied read and less the descendants of such nodes;
\* every other node is in the reply.
C17_ReadFilter ==
    (nacm.last.op = "get" /\ nacm.last.eval.action = "permit") =>
          /\ nacm.last.err = NoErr
          /\ {d.node : d \in nacm.last.data}
                = {n \in DataNodes :
                     \A m \in AncestorsOrSelf(n) :
                        FirstMatchAction(NacmConfigs[nacm.last.cfg], nacm.last.user,
                                         Access("data", "nacm-example", m, "read"))
                            = "permit"}
          /\ \A d \in nacm.last.data : d.value = IF d.node = "/x" THEN nacm.x ELSE 0

C17_Witness ==
    /\ nacm.last.op = "get"
    /\ nacm.last.user = "wilma"
    /\ nacm.last.cfg = 2
    /\ nacm.last.err = NoErr
    /\ {d.node : d \in nacm.last.data} = {"/x"}

(* ------------------------------------------------------------------ *)
(* YANG: finding a module by prefix or namespace                       *)
(* ------------------------------------------------------------------ *)

\* Modules a yang spec holds at most.
MaxMods == 3

\* A char* that is NULL.
NullStr == "(null)"

\* An import statement: the module it names and its prefix statement
\* (NullStr when it has none).
Import(module, prefix) == [module |-> module, prefix |-> prefix]

\* A child of the yang spec: keyword, argument, own prefix (of a submodule:
\* the prefix of its belongs-to), namespace and import statements in order.
YangMod(keyword, name, prefix, ns, imports) ==
    [keyword |-> keyword, name |-> name, prefix |-> prefix, ns |-> ns, imports |-> imports]

YangPool ==
    {YangMod("module", "a", "a", "urn:a",
             <<Import("b", "b"), Import("c", "cc"), Import("b", "a")>>),
     YangMod("module", "b", "b", "urn:b",
             <<Import("c", "x"), Import("a", "x"), Import("a", NullStr)>>),
     YangMod("module", "c", "a", "urn:a", <<Import("a", "b")>>),
     YangMod("submodule", "b", "a", NullStr, <<Import("b", "b")>>)}

\* The yang specs: up to MaxMods distinct children in any order.
YSpecs ==
    UNION {{q \in [1..n -> YangPool] : \A i, j \in 1..n : q[i] = q[j] => i = j} :
              n \in 1..MaxMods}

Prefixes == {"a", "b", "x", "cc", "zz"}

Namespaces == {"urn:a", "urn:b", "urn:zz", NullStr}

\* yang_find(yspec, Y_MODULE, name): the first module statement with that
\* argument at or after position i; 0 is NULL.
RECURSIVE yang_find_module(_, _, _)
yang_find_module(yspec, name, i) ==
    IF i > Len(yspec) THEN 0
    ELSE IF yspec[i].keyword = "module" /\ yspec[i].name = name THEN i
    ELSE yang_find_module(yspec, name, i + 1)

\* The loop over the import statements from position i: the first one that
\* has a prefix statement equal to prefix; 0 when the loop runs out.
RECURSIVE FindImport(_, _, _)
FindImport(imports, prefix, i) ==
    IF i > Len(imports) THEN 0
    ELSE IF imports[i].prefix # NullStr /\ imports[i].prefix = prefix THEN i
    ELSE FindImport(imports, prefix, i + 1)

\* yang_find_module_by_prefix with the imports tried before the own prefix.
yang_find_module_by_prefix_imports_first(yspec, ym, prefix) ==
    LET my_ymod == yspec[ym]
        yimport == FindImport(my_ymod.imports, prefix, 1)
    IN  IF yimport # 0
        THEN yang_find_module(yspec, my_ymod.imports[yimport].module, 1)
        ELSE IF my_ymod.prefix # NullStr /\ my_ymod.prefix = prefix THEN ym
        ELSE 0

\* yang_find_module_by_prefix for a statement ys of the child at position ym:
\* the position of the module found, 0 for NULL.
yang_find_module_by_prefix(yspec, ym, prefix) ==
    LET my_ymod == yspec[ym]
        yimport == FindImport(my_ymod.imports, prefix, 1)
    IN  IF my_ymod.prefix # NullStr /\ my_ymod.prefix = prefix THEN ym
        ELSE IF yimport = 0 THEN 0
        ELSE yang_find_module(yspec, my_ymod.imports[yimport].module, 1)

\* yang_find_module_by_namespace that looks from the end of the spec.
RECURSIVE NamespaceLoop_last(_, _, _)
NamespaceLoop_last(yspec, ns, i) ==
    IF i > Len(yspec) THEN 0
    ELSE LET rest == NamespaceLoop_last(yspec, ns, i + 1)
         IN  IF rest # 0 THEN rest
             ELSE IF yspec[i].ns # NullStr /\ yspec[i].ns = ns THEN i
             ELSE 0

\* The loop of yang_find_module_by_namespace from position i.
RECURSIVE NamespaceLoop(_, _, _)
NamespaceLoop(yspec, ns, i) ==
    IF i > Len(yspec) THEN 0
    ELSE IF yspec[i].ns # NullStr /\ yspec[i].ns = ns THEN i
    ELSE NamespaceLoop(yspec, ns, i + 1)

yang_find_module_by_namespace(yspec, ns) ==
    IF ns = NullStr THEN 0 ELSE NamespaceLoop(yspec, ns, 1)

YFind(fn, yspec, ym, arg, ret) ==
    [fn |-> fn, yspec |-> yspec, before |-> yspec, ym |-> ym, arg |-> arg, ret |-> ret]

\* The yang spec is loaded.
yang_load(yspec) ==
    /\ yfind' = YFind("load", yspec, 0, "", 0)
    /\ UNCHANGED <<dbvars, namevars, streamvars, nacmvars, upg>>

yang_find_module_by_prefix_call(ym, prefix) ==
    /\ ym \in 1..Len(yfind.yspec)
    /\ yfind' = YFind("prefix", yfind.yspec, ym, prefix,
                      yang_find_module_by_prefix(yfind.yspec, ym, prefix))
    /\ UNCHANGED <<dbvars, namevars, streamvars, nacmvars, upg>>

yang_find_module_by_namespace_call(ns) ==
    /\ yfind' = YFind("namespace", yfind.yspec, 0, ns,
                      yang_find_module_by_namespace(yfind.yspec, ns))
    /\ UNCHANGED <<dbvars, namevars, streamvars, nacmvars, upg>>

InitYang == yfind = YFind("load", <<>>, 0, "", 0)

C20_FindByNamespace ==
    yfind.fn = "namespace" =>
        LET yspec == yfind.before
            hits == {i \in 1..Len(yspec) : yspec[i].ns = yfind.arg}
        IN  /\ yfind.yspec = yfind.before
            /\ IF yfind.arg = NullStr \/ hits = {} THEN yfind.ret = 0
               ELSE yfind.ret \in hits /\ \A j \in hits : yfind.ret <= j

\* Two loaded modules have the namespace: the first one is returned.
C20_Witness ==
    /\ yfind.fn = "namespace"
    /\ yfind.arg = "urn:a"
    /\ Len(yfind.yspec) = 3
    /\ yfind.yspec[2].ns = "urn:a" /\ yfind.yspec[3].ns = "urn:a"
    /\ yfind.ret = 2

(* ------------------------------------------------------------------ *)
(* Upgrade of a loaded datastore by the module-state diff               *)
(* ------------------------------------------------------------------ *)

\* Module-state entries md_diff holds at most.
MaxDiff == 2

\* One module-state entry of md_diff: its namespace body (NullStr when it has
\* none), its flag, the revision of the file ("ok", "bad" date or "none"), the
\* revision statement of the module in the system, and what
\* upgrade_callback_call does for it: its result, and whether a callback
\* edits xt.
Xmod(ns, flag, rev, torev, cb, edits) ==
    [ns |-> ns, flag |-> flag, rev |-> rev, torev |-> torev, cb |-> cb, edits |-> edits]

XmodPool ==
    {Xmod("urn:a", "change", "ok", "ok", 1, TRUE),
     Xmod("urn:a", "add", "none", "none", 1, TRUE),
     Xmod("urn:zz", "add", "none", "ok", 1, FALSE),
     Xmod(NullStr, "change", "ok", "ok", 1, TRUE),
     Xmod("urn:b", "change", "bad", "ok", 0, FALSE),
     Xmod("urn:b", "del", "ok", "ok", 0, FALSE),
     Xmod("urn:a", "del", "none", "ok", -1, TRUE)}

\* modstate_diff_t *msd: NULL, or md_status and md_diff.
Msds ==
    [null : {TRUE}, md_status : {0}, md_diff : {<<>>}]
        \cup [null : {FALSE}, md_status : {0, 1},
              md_diff : UNION {[1..n -> XmodPool] : n \in 0..MaxDiff}]

\* mod_ns_upgrade: [ret, called, edited].
mod_ns_upgrade(yspec, xmod) ==
    LET out(ret, called) == [ret |-> ret, called |-> called, edited |-> called /\ xmod.edits]
        ymod == yang_find_module_by_namespace(yspec, xmod.ns)
    IN  IF xmod.flag \in {"change", "del"} /\ xmod.rev = "bad" THEN out(-1, FALSE)
        ELSE IF xmod.flag \in {"change", "add"} /\ ymod = 0 THEN out(0, FALSE)
        ELSE IF xmod.flag \in {"change", "add"} /\ xmod.torev = "none" THEN out(1, FALSE)
        ELSE IF xmod.flag \in {"change", "add"} /\ xmod.torev = "bad" THEN out(-1, FALSE)
        ELSE IF xmod.cb < 0 THEN out(-1, TRUE)
        ELSE IF xmod.cb = 0 THEN out(0, TRUE)
        ELSE out(1, TRUE)

\* The loop of clixon_module_upgrade over md_diff from entry i on, with calls
\* callbacks invoked and xt edited so far: [ret, calls, edited].
RECURSIVE UpgradeLoop(_, _, _, _, _)
UpgradeLoop(yspec, diff, i, calls, edited) ==
    IF i > Len(diff) THEN [ret |-> 1, calls |-> calls, edited |-> edited]
    ELSE IF diff[i].ns = NullStr THEN [ret |-> -1, calls |-> calls, edited |-> edited]
    ELSE LET r == mod_ns_upgrade(yspec, diff[i])
             c == IF r.called THEN calls + 1 ELSE calls
             e == edited \/ r.edited
         IN  IF r.ret < 0 THEN [ret |-> -1, calls |-> c, edited |-> e]
             ELSE IF r.ret = 0 THEN [ret |-> 0, calls |-> c, edited |-> e]
             ELSE UpgradeLoop(yspec, diff, i + 1, c, e)

\* The test of md_status left out: the diff is always walked.
NoModstate_never(msd) == FALSE

\* No modstate in startup.
NoModstate(msd) == msd.md_status = 0

\* clixon_module_upgrade: [ret, calls, edited].
clixon_module_upgrade(yspec, msd) ==
    IF msd.null THEN [ret |-> -1, calls |-> 0, edited |-> FALSE]
    ELSE IF NoModstate(msd) THEN [ret |-> 1, calls |-> 0, edited |-> FALSE]
    ELSE UpgradeLoop(yspec, msd.md_diff, 1, 0, FALSE)

clixon_module_upgrade_call(msd) ==
    /\ upg' = [msd |-> msd, res |-> clixon_module_upgrade(yfind.yspec, msd)]
    /\ UNCHANGED <<dbvars, namevars, streamvars, nacmvars, yfind>>

InitUpgrade ==
    upg = [msd |-> [null |-> TRUE, md_status |-> 0, md_diff |-> <<>>],
           res |-> [ret |-> -1, calls |-> 0, edited |-> FALSE]]

\* C21: clixon_module_upgrade returns 1, invokes no upgrade callback and
\* leaves the XML tree alone when md_status is 0; it returns -1 when msd is
\* NULL.
C21_NoModstate ==
    /\ upg.msd.null => upg.res.ret = -1
    /\ (~upg.msd.null /\ upg.msd.md_status = 0) =>
          /\ upg.res.ret = 1
          /\ upg.res.calls = 0
          /\ ~upg.res.edited

\* No module state, although the diff holds an entry a callback would edit.
C21_Witness ==
    /\ ~upg.msd.null
    /\ upg.msd.md_status = 0
    /\ Len(upg.msd.md_diff) = 2
    /\ upg.msd.md_diff[1] = Xmod("urn:a", "del", "none", "ok", -1, TRUE)
    /\ upg.res.ret = 1
    /\ Len(yfind.yspec) = 2

InitDb ==
    /\ db_elmnt = [db \in Stores |-> de_zero]
    /\ heap = [p \in Objs |-> Free]
    /\ tmpfile = NoFile
    /\ pc = "idle"
    /\ last = Op("init", "", "", 0, 0)
    /\ old = Snapshot

Init ==
    /\ cache \in BOOLEAN
    /\ files \in [Stores -> {NoFile} \cup Contents]
    /\ InitDb
    /\ InitName
    /\ InitStream
    /\ InitNacm
    /\ InitYang
    /\ InitUpgrade

Next ==
    \/ \E db \in Stores, pid \in Pids : xmldb_lock(db, pid)
    \/ \E db \in Stores : xmldb_unlock(db)
    \/ \E pid \in Pids, kf \in BOOLEAN : xmldb_unlock_all(pid, kf)
    \/ \E from \in Stores, to \in Stores, f \in CopyFail : xmldb_copy(from, to, f)
    \/ clicon_file_copy_rename
    \/ \E db \in Stores, f \in DeleteFail : xmldb_delete(db, f)
    \/ \E db \in Stores, f \in CreateFail : xmldb_create(db, f)
    \/ \E kf \in BOOLEAN : xmldb_disconnect(kf)
    \/ \E db \in Stores : xmldb_get(db)

\* The datastore.
Spec == Init /\ [][Next]_vars

InitNames ==
    /\ cache = FALSE
    /\ files = [db \in Stores |-> NoFile]
    /\ InitDb
    /\ InitName
    /\ InitStream
    /\ InitNacm
    /\ InitYang
    /\ InitUpgrade

NextNames ==
    \/ \E db \in NameInputs : xmldb_validate_db_call(db)
    \/ \E ds \in BOOLEAN, dir \in Dirs, db \in NameInputs : xmldb_db2file_call(ds, dir, db)

\* Datastore names and file names.
SpecNames == InitNames /\ [][NextNames]_vars

NextStream ==
    \/ \E i \in ReqInputs : api_stream(i[1], i[2], i[3], i[4], i[5], i[6], i[7])
    \/ \E pid \in (1..MaxFork) \cup {-1} : stream_child_free(pid)
    \/ stream_child_freeall

\* The RESTCONF daemon: stream requests and the list of stream children.
SpecStream == InitNames /\ [][NextStream]_vars

\* The first stream request that forks a child, and then that child.
FirstStream(i) ==
    /\ forked = 0
    /\ api_stream(i[1], i[2], i[3], i[4], i[5], i[6], i[7])

NextSession ==
    \/ \E i \in ReqInputs : FirstStream(i)
    \/ \E msg \in Msgs : restconf_stream_cb(msg)
    \/ stream_checkuplink
    \/ stream_timeout
    \/ uplink_close
    \/ api_stream_child_exit

\* One stream session: the request, and the event loop of its child.
SpecSession == InitNames /\ [][NextSession]_vars

\* One stream session in which the poll timer keeps firing and the child
\* runs on after its event loop has returned.
SpecSessionFair ==
    SpecSession /\ WF_vars(stream_timeout) /\ WF_vars(api_stream_child_exit)

NextNacm ==
    \/ \E frontend \in {"restconf", "cli"}, user \in NacmUsers : nacm_get(frontend, user)
    \/ \E user \in NacmUsers, v \in 0..MaxVal : nacm_put(user, v)
    \/ \E user \in NacmUsers : nacm_rpc(user)
    \/ \E c \in 1..Len(NacmConfigs) : nacm_load(c)

\* Requests under NACM.
SpecNacm == InitNames /\ [][NextNacm]_vars

NextYang ==
    \/ \E yspec \in YSpecs : yang_load(yspec)
    \/ \E ym \in 1..MaxMods, prefix \in Prefixes : yang_find_module_by_prefix_call(ym, prefix)
    \/ \E ns \in Namespaces : yang_find_module_by_namespace_call(ns)

\* Lookups in a yang spec.
SpecYang == InitNames /\ [][NextYang]_vars

NextUpgrade ==
    \/ \E yspec \in YSpecs : yang_load(yspec)
    \/ \E msd \in Msds : clixon_module_upgrade_call(msd)

\* Upgrade on load.
SpecUpgrade == InitNames /\ [][NextUpgrade]_vars

====
